---- MODULE Spec2Model ----
(***************************************************************************)
(* Model of DL_Ass_1/main.py: a hand-written feed-forward network          *)
(* ([LINEAR->RELU]*(L-1) -> LINEAR -> SOFTMAX) and its mini-batch training  *)
(* loop.                                                                   *)
(*                                                                         *)
(* Two specifications share the module.                                    *)
(*   SpecNet  - L_model_forward / L_model_backward / Update_parameters on  *)
(*              arrays that carry their numpy shape and the expression     *)
(*              that computed them (a term), so that which mask multiplied *)
(*              which gradient, and every shape, can be inspected.         *)
(*   SpecLoop - the control flow of L_layer_model: epochs, batches, the    *)
(*              validation points, early stopping, the recorded lists.     *)
(*              The passes are taken to return (the layers of __main__,    *)
(*              [784, 20, 7, 5, 10], raise nothing); use_batchnorm is      *)
(*              handed through to L_model_forward and Predict and decides  *)
(*              nothing in the loop, so it is not carried.  A recorded     *)
(*              value is represented by the keep-probability of the        *)
(*              forward pass it was computed from; the validation cost     *)
(*              itself is an input chosen at every validation point.       *)
(*                                                                         *)
(* Keep-probabilities are written in percent (dropout = 50 is 0.5, and     *)
(* "dropout < 1" of the source reads dropout < One).                       *)
(***************************************************************************)
EXTENDS Integers, Sequences, FiniteSets, TLC

VARIABLES
    \* ---- SpecNet ----
    layer_dims,       \* argument of initialize_parameters
    samples,          \* number of columns of X and Y (examples in the batch)
    net_batchnorm,    \* use_batchnorm passed to L_model_forward
    net_dropout,      \* dropout passed to L_model_forward / L_model_backward
    net_parameters,   \* parameters dictionary: layer -> <<W, b>>
    net_AL,           \* AL returned by the last L_model_forward
    net_caches,       \* caches returned by the last L_model_forward
    net_grads,        \* grads returned by the last L_model_backward
    net_pc,           \* "forward" | "backward" | "update" | "raised"
    net_steps,        \* completed forward/backward/update cycles
    rand_calls,       \* number of np.random.rand draws made so far
    \* ---- SpecLoop: arguments of L_layer_model
    learning_rate,    \* in thousandths
    num_iterations,
    batch_size,
    lm_dropout,          \* keep-probability in percent
    n_train,          \* len(y_train)
    \* ---- SpecLoop: locals of L_layer_model
    pc,               \* "call" | "loop" | "returned"
    lm_parameters,       \* parameters, named by the number of updates applied
    epoch,            \* position of the next batch step: epoch and batch
    batch,
    iteration,
    costs,            \* the four recorded lists; an entry is
    costs_val,        \*   <<iteration, keep-probability of the forward pass
    accuracy_train_list, \*   the value was computed from>>
    accuracy_val,
    last_cost_val,    \* a cost <<whole, tiny>>, see CostVals
    cache_list,       \* number of the L_model_forward call that returned it
    cache_list_val,
    \* ---- SpecLoop: what has been executed (history)
    val_recorded,     \* the cost of the newest costs_val entry
    init_calls,       \* calls of initialize_parameters
    forward_calls,    \* calls of L_model_forward
    train_steps,      \* forward/backward/update steps executed
    step,             \* the last batch step, see BatchStep
    epoch_steps,      \* <<steps of the running epoch, steps of the last finished epoch>>
    epoch_used,       \* training positions used in the running epoch
    trained,          \* training positions used in any step
    overlap,          \* some step reused a position within one epoch
    early,            \* the early-stopping return was taken
    ret               \* the returned <<lm_parameters, costs>>

netVars == <<layer_dims, samples, net_batchnorm, net_dropout, net_parameters,
             net_AL, net_caches, net_grads, net_pc, net_steps, rand_calls>>

loopVars == <<learning_rate, num_iterations, batch_size, lm_dropout, n_train, pc,
              lm_parameters, epoch, batch, iteration, costs, costs_val,
              accuracy_train_list, accuracy_val, last_cost_val, cache_list,
              cache_list_val, val_recorded, init_calls, forward_calls,
              train_steps, step, epoch_steps, epoch_used, trained, overlap,
              early, ret>>

vars == <<netVars, loopVars>>

\* ------------------------------------------------------------------ bounds
MaxLayers == 5        \* L: number of weight layers (len(layer_dims) - 1)
MaxDim == 2           \* largest layer width
MaxSamples == 2       \* largest number of examples in a batch
MaxSteps == 2         \* training cycles followed in SpecNet
MaxEpochs == 9101     \* largest num_iterations (epoch budget) in SpecLoop
NTrain == 5           \* number of training examples in SpecLoop

One == 100            \* keep-probability 1, in percent
NetDropouts == {50, One}

\* ------------------------------------------------------------ numpy arrays
\* An array is its shape and the expression that produced it.
Arr(shape, val) == [shape |-> shape, val |-> val]

\* The value standing for a raised exception (IndexError / ValueError).
Raised == [shape |-> <<0, 0>>, val |-> <<"raise">>]

IsRaised(a) == a = Raised

Max2(a, b) == IF a >= b THEN a ELSE b

\* numpy broadcasting of two 2-D shapes; <<0, 0>> when they do not broadcast.
Broadcast(s, t) ==
    IF /\ (s[1] = t[1] \/ s[1] = 1 \/ t[1] = 1)
       /\ (s[2] = t[2] \/ s[2] = 1 \/ t[2] = 1)
    THEN <<Max2(s[1], t[1]), Max2(s[2], t[2])>>
    ELSE <<0, 0>>

\* np.multiply / np.subtract / + / - on two arrays.
Elementwise(op, a, b) ==
    IF IsRaised(a) \/ IsRaised(b) THEN Raised
    ELSE IF Broadcast(a.shape, b.shape) = <<0, 0>> THEN Raised
    ELSE Arr(Broadcast(a.shape, b.shape), <<op, a.val, b.val>>)

\* An array combined with a Python scalar.
WithScalar(op, a, k) ==
    IF IsRaised(a) THEN Raised ELSE Arr(a.shape, <<op, a.val, k>>)

\* np.dot of two 2-D arrays.
Dot(a, b) ==
    IF IsRaised(a) \/ IsRaised(b) THEN Raised
    ELSE IF a.shape[2] # b.shape[1] THEN Raised
    ELSE Arr(<<a.shape[1], b.shape[2]>>, <<"dot", a.val, b.val>>)

\* a.T
Transpose(a) ==
    IF IsRaised(a) THEN Raised
    ELSE Arr(<<a.shape[2], a.shape[1]>>, <<"T", a.val>>)

\* Python list indexing with the 0-based index i, negative indices included:
\* PyInRange is FALSE where Python raises IndexError.
PyInRange(list, i) ==
    LET n == Len(list)
        j == IF i < 0 THEN i + n ELSE i
    IN  j >= 0 /\ j < n

PyIndex(list, i) ==
    LET n == Len(list)
        j == IF i < 0 THEN i + n ELSE i
    IN  list[j + 1]

\* list[i][k] for a list of lists whose elements are arrays; Raised for IndexError.
PyIndex2(list, i, k) ==
    IF ~PyInRange(list, i) THEN Raised
    ELSE IF ~PyInRange(PyIndex(list, i), k) THEN Raised
    ELSE PyIndex(PyIndex(list, i), k)

\* ------------------------------------------------------------ forward pass
\* np.random.randn(rows, cols) * sqrt(2 / rows) and np.zeros((rows, 1))
initialize_parameters(dims) ==
    [l \in 1..(Len(dims) - 1) |->
        << Arr(<<dims[l + 1], dims[l]>>, <<"W", l, 0>>),
           Arr(<<dims[l + 1], 1>>, <<"b", l, 0>>) >>]

\* returns <<Z, linear_cache>>
linear_forward(A, W, b) ==
    << Elementwise("add", Dot(W, A), b), <<A, W, b>> >>

\* returns <<A, activation_cache>>
softmax(Z) ==
    << (IF IsRaised(Z) THEN Raised ELSE Arr(Z.shape, <<"softmax", Z.val>>)), Z >>

\* returns <<A, activation_cache>>
relu(Z) ==
    << (IF IsRaised(Z) THEN Raised ELSE Arr(Z.shape, <<"relu", Z.val>>)), Z >>

apply_batchnorm(A) ==
    IF IsRaised(A) THEN Raised ELSE Arr(A.shape, <<"batchnorm", A.val>>)

\* np.random.rand(rows, cols) < dropout: the draw-th random matrix, thresholded.
DropMatrix(A, dropout, draw) ==
    IF IsRaised(A) THEN Raised ELSE Arr(A.shape, <<"rand<", draw, dropout>>)

\* linear_activation_forward testing dropout <= 1 in place of dropout < 1.
linear_activation_forward_le(A_prev, W, B, activation, dropout, draw) ==
    LET lin == linear_forward(A_prev, W, B)
        Z == lin[1]
        linear_cache == lin[2]
    IN  IF activation = "relu" THEN
            LET r == relu(Z)
                drop_matrix == DropMatrix(r[1], dropout, draw)
            IN  IF dropout <= One
                THEN << WithScalar("div", Elementwise("mul", r[1], drop_matrix), dropout),
                        <<linear_cache, r[2], drop_matrix>> >>
                ELSE << r[1], <<linear_cache, r[2]>> >>
        ELSE
            LET s == softmax(Z)
            IN  << s[1], <<linear_cache, s[2]>> >>

\* returns <<A, cache>>; draw numbers the random matrix this call would use.
linear_activation_forward(A_prev, W, B, activation, dropout, draw) ==
    LET lin == linear_forward(A_prev, W, B)
        Z == lin[1]
        linear_cache == lin[2]
    IN  IF activation = "relu" THEN
            LET r == relu(Z)
                drop_matrix == DropMatrix(r[1], dropout, draw)
            IN  IF dropout < One
                THEN << WithScalar("div", Elementwise("mul", r[1], drop_matrix), dropout),
                        <<linear_cache, r[2], drop_matrix>> >>
                ELSE << r[1], <<linear_cache, r[2]>> >>
        ELSE
            LET s == softmax(Z)
            IN  << s[1], <<linear_cache, s[2]>> >>

\* The hidden layers 1..upto of L_model_forward: <<A, cache_list>>.
RECURSIVE HiddenLayers(_, _, _, _, _, _)
HiddenLayers(X, parameters, use_batchnorm, dropout, draw0, upto) ==
    IF upto = 0 THEN <<X, <<>>>>
    ELSE
        LET prev == HiddenLayers(X, parameters, use_batchnorm, dropout, draw0, upto - 1)
            res == linear_activation_forward(prev[1], parameters[upto][1],
                       parameters[upto][2], "relu", dropout, draw0 + upto)
            A == IF use_batchnorm THEN apply_batchnorm(res[1]) ELSE res[1]
        IN  <<A, Append(prev[2], res[2])>>

\* returns <<AL, cache_list>>
L_model_forward(X, parameters, use_batchnorm, dropout, draw0) ==
    LET num_of_layers == Len(parameters)
        hid == HiddenLayers(X, parameters, use_batchnorm, dropout, draw0,
                            num_of_layers - 1)
        res == linear_activation_forward(hid[1], parameters[num_of_layers][1],
                   parameters[num_of_layers][2], "softmax", dropout, 0)
    IN  <<res[1], Append(hid[2], res[2])>>

\* ----------------------------------------------------------- backward pass
\* Linear_backward summing dZ along the wrong axis for db.
Linear_backward_axis0(dZ, cache) ==
    LET A_prev == cache[1]
        W == cache[2]
        smpls == A_prev.shape[2]
        dW == WithScalar("div", Dot(dZ, Transpose(A_prev)), smpls)
        db == IF IsRaised(dZ) THEN Raised
              ELSE Arr(<<1, dZ.shape[2]>>, <<"colsum", dZ.val, smpls>>)
        dA_prev == Dot(Transpose(W), dZ)
    IN  <<dA_prev, dW, db>>

\* returns <<dA_prev, dW, db>>
Linear_backward(dZ, cache) ==
    LET A_prev == cache[1]
        W == cache[2]
        neurons == cache[3].shape[1]
        smpls == A_prev.shape[2]
        dW == WithScalar("div", Dot(dZ, Transpose(A_prev)), smpls)
        \* [[np.sum(dZ[i]) / samples] for i in range(neurons)]
        db == IF IsRaised(dZ) \/ neurons > dZ.shape[1] THEN Raised
              ELSE Arr(<<neurons, 1>>, <<"rowsum", dZ.val, smpls>>)
        dA_prev == Dot(Transpose(W), dZ)
    IN  <<dA_prev, dW, db>>

\* dZ = copy of dA; dZ[activation_cache <= 0] = 0 (a boolean index must have
\* the shape of the indexed array)
relu_backward(dA, activation_cache) ==
    IF IsRaised(dA) \/ IsRaised(activation_cache) THEN Raised
    ELSE IF dA.shape # activation_cache.shape THEN Raised
    ELSE Arr(dA.shape, <<"relu_backward", dA.val, activation_cache.val>>)

softmax_backward(dA, activation_cache) ==
    Elementwise("sub", dA, activation_cache)

\* Python dictionaries of L_model_backward: {} and {'prob': .., 'cache': ..}
EmptyDict == <<>>

DropoutDict(prob, cache) == [prob |-> prob, cache |-> cache]

\* bool(d) of a dictionary
PyBool(d) == DOMAIN d # {}

\* returns <<dA_prev, dW, db>>
linear_activation_backward(dA, cache, activation, dropout, dropout_cache) ==
    LET linear_cache == cache[1]
        activation_cache == cache[2]
        dZ == IF activation = "relu"
              THEN relu_backward(dA, activation_cache)
              ELSE softmax_backward(dA, cache[3])
        lb == Linear_backward(dZ, linear_cache)
        dA_prev == IF dropout < One /\ PyBool(dropout_cache)
                   THEN WithScalar("div",
                            Elementwise("mul", lb[1], dropout_cache.cache), dropout)
                   ELSE lb[1]
    IN  <<dA_prev, lb[2], lb[3]>>

\* The dropout_cache chosen for loop index l of L_model_backward (line 267).
LoopDropoutCache(caches, dropout, l) ==
    IF dropout < One /\ l - 2 > 0
    THEN DropoutDict(dropout, PyIndex2(caches, l - 2, 2))
    ELSE EmptyDict

\* for l in reversed(range(layers - 1)), from index l downwards
RECURSIVE BackwardLoop(_, _, _, _)
BackwardLoop(grads, caches, dropout, l) ==
    IF l < 0 THEN grads
    ELSE
        LET dropout_cache == LoopDropoutCache(caches, dropout, l)
            res == linear_activation_backward(grads[<<"dA", l + 1>>], caches[l + 1],
                       "relu", dropout, dropout_cache)
            g == (<<"dA", l>> :> res[1]) @@ (<<"dW", l + 1>> :> res[2])
                 @@ (<<"db", l + 1>> :> res[3]) @@ grads
        IN  BackwardLoop(g, caches, dropout, l - 1)

\* returns [raised, grads]: grads has the keys <<"dA", l>>, <<"dW", l>>,
\* <<"db", l>>; raised tells that an exception left the function instead.
L_model_backward(AL, Y, caches, dropout) ==
    LET layers == Len(caches)
        first_mask == PyIndex2(caches, layers - 2, 2)
        dropout_cache == IF dropout < One THEN DropoutDict(dropout, first_mask)
                         ELSE EmptyDict
        last_cache_plus_Y == Append(caches[layers], Y)
        res == linear_activation_backward(AL, last_cache_plus_Y, "softmax",
                                          dropout, dropout_cache)
        g0 == (<<"dA", layers - 1>> :> res[1]) @@ (<<"dW", layers>> :> res[2])
              @@ (<<"db", layers>> :> res[3])
        grads == BackwardLoop(g0, caches, dropout, layers - 2)
    IN  IF dropout < One /\ IsRaised(first_mask)
        THEN [raised |-> TRUE, grads |-> <<>>]
        ELSE IF \E k \in DOMAIN grads : IsRaised(grads[k])
        THEN [raised |-> TRUE, grads |-> <<>>]
        ELSE [raised |-> FALSE, grads |-> grads]

\* parameters[l][0] - learning_rate * grads (learning_rate is alpha here)["dW" + str(l)], and the bias
\* likewise.  The new value is named by its layer and its update count.
Update_parameters(parameters, grads, alpha) ==
    [l \in 1..Len(parameters) |->
        LET W == parameters[l][1]
            b == parameters[l][2]
            newW == Elementwise("sub", W, WithScalar("scale", grads[<<"dW", l>>], alpha))
            newb == Elementwise("sub", b, WithScalar("scale", grads[<<"db", l>>], alpha))
        IN  << Arr(newW.shape, <<"W", l, W.val[3] + 1>>),
               Arr(newb.shape, <<"b", l, b.val[3] + 1>>) >>]

\* ------------------------------------------------------- SpecNet: actions
NetLearningRate == 9     \* learning_rate 0.009, in thousandths

NoArr == Arr(<<0, 0>>, <<"none">>)

NumLayers == Len(layer_dims) - 1

\* the batch the net_steps-th cycle trains on
NetX == Arr(<<layer_dims[1], samples>>, <<"X", net_steps>>)

NetY == Arr(<<layer_dims[NumLayers + 1], samples>>, <<"Y", net_steps>>)

LayerDimsSet == UNION {[1..n -> 1..MaxDim] : n \in 2..(MaxLayers + 1)}

InitNetVars ==
    /\ layer_dims \in LayerDimsSet
    /\ samples \in 1..MaxSamples
    /\ net_batchnorm \in BOOLEAN
    /\ net_dropout \in NetDropouts
    /\ net_parameters = initialize_parameters(layer_dims)
    /\ net_AL = NoArr
    /\ net_caches = <<>>
    /\ net_grads = <<>>
    /\ net_pc = "forward"
    /\ net_steps = 0
    /\ rand_calls = 0

NetForward ==
    /\ net_pc = "forward"
    /\ net_steps < MaxSteps
    /\ LET res == L_model_forward(NetX, net_parameters, net_batchnorm,
                                  net_dropout, rand_calls)
       IN  /\ net_AL' = res[1]
           /\ net_caches' = res[2]
           \* one np.random.rand call for every mask that was generated
           /\ rand_calls' = rand_calls
                 + Cardinality({i \in 1..Len(res[2]) : Len(res[2][i]) = 3})
    /\ net_pc' = "backward"
    /\ UNCHANGED <<layer_dims, samples, net_batchnorm, net_dropout,
                   net_parameters, net_grads, net_steps>>
    /\ UNCHANGED loopVars

NetBackward ==
    /\ net_pc = "backward"
    /\ LET res == L_model_backward(net_AL, NetY, net_caches, net_dropout)
       IN  IF res.raised
           THEN /\ net_pc' = "raised"
                /\ net_grads' = <<>>
           ELSE /\ net_pc' = "update"
                /\ net_grads' = res.grads
    /\ UNCHANGED <<layer_dims, samples, net_batchnorm, net_dropout,
                   net_parameters, net_AL, net_caches, net_steps, rand_calls>>
    /\ UNCHANGED loopVars

NetUpdate ==
    /\ net_pc = "update"
    /\ net_parameters' = Update_parameters(net_parameters, net_grads, NetLearningRate)
    /\ net_steps' = net_steps + 1
    /\ net_pc' = "forward"
    /\ UNCHANGED <<layer_dims, samples, net_batchnorm, net_dropout,
                   net_AL, net_caches, net_grads, rand_calls>>
    /\ UNCHANGED loopVars


\* ------------------------------------------------ SpecLoop: L_layer_model
ValInterval == 100        \* iteration % 100 == 0
MinIterations == 18000    \* iteration > 18000

\* A cost is <<whole, tiny>>, standing for whole + tiny * 1e-11 with
\* 0 <= tiny < 1e11, so that differences below and above the threshold of
\* 1e-10 both occur among a few values.
ThresholdTiny == 10       \* 0.0000000001, in units of 1e-11

InitLastCostVal == <<100, 0>>

\* the values compute_cost(A_val, y_val.T) takes at the validation points
CostVals == {<<0, 0>>, <<0, 5>>, <<0, 20>>}

NoCost == <<-1, -1>>

\* last_cost_val - cost_val < 0.0000000001
BelowThreshold(last, cur) ==
    IF last[1] # cur[1] THEN last[1] < cur[1]
    ELSE last[2] - cur[2] < ThresholdTiny

\* lines 362 and 376: the step is a validation point, and
\* last_cost_val - cost_val < 0.0000000001 and iteration > 18000
EarlyStop_ge(validation, last, cur, it) ==
    /\ validation
    /\ BelowThreshold(last, cur)
    /\ it >= MinIterations

EarlyStop(validation, last, cur, it) ==
    /\ validation
    /\ BelowThreshold(last, cur)
    /\ it > MinIterations

LearningRates == {0, 9}
BatchSizes == {2, 4, NTrain + 2}
Dropouts == {0, 50, One, 150}
NumIterationsSet == {1, 2, MaxEpochs}

\* the batch count rounded up instead of down
NumBatches_ceil(n, s) == (n + s - 1) \div s

\* int(len(y_train) / batch_size), for a positive batch size
NumBatches(n, s) == n \div s

StartingSample(b, s) == b * s

EndingSample(b, s) == StartingSample(b, s) + s

\* list[start:stop] for 0 <= start <= stop: Python clips stop to the length
PySlice(list, start, stop) ==
    LET hi == IF stop > Len(list) THEN Len(list) ELSE stop
    IN  [i \in 1..(IF hi > start THEN hi - start ELSE 0) |-> list[start + i]]

\* X_train and y_train after the split: row i holds training example i
XTrain == [i \in 1..n_train |-> i - 1]

YTrain == [i \in 1..n_train |-> i - 1]

Range(f) == {f[i] : i \in DOMAIN f}

\* An L_model_forward call: its number, its caller and the keep-probability
\* it is given.
ForwardCall(id, kind, keep) == [id |-> id, kind |-> kind, keep |-> keep]

\* Predict runs L_model_forward(X, parameters, use_batchnorm, 1)
Predict(id) == ForwardCall(id, "predict", One)

\* L_model_backward handed the cache list of the validation forward pass
BackwardCaches_val(cacheList, cacheListVal) == <<cacheListVal>>

\* The cache lists handed to L_model_backward in one batch step: the list the
\* training forward pass returned, and nothing else.
BackwardCaches(cacheList, cacheListVal) == <<cacheList>>

NoStep == [iter |-> -1, batch |-> -1, validation |-> FALSE, prev |-> NoCost,
           cost |-> NoCost, X |-> <<>>, Y |-> <<>>, fwd |-> <<>>, bwd |-> <<>>]

InitLoopVars ==
    /\ learning_rate \in LearningRates
    /\ num_iterations \in NumIterationsSet
    /\ batch_size \in BatchSizes
    /\ lm_dropout \in Dropouts
    /\ n_train = NTrain
    /\ pc = "call"
    /\ lm_parameters = 0
    /\ epoch = 0
    /\ batch = 0
    /\ iteration = 0
    /\ costs = <<>>
    /\ costs_val = <<>>
    /\ accuracy_train_list = <<>>
    /\ accuracy_val = <<>>
    /\ last_cost_val = NoCost
    /\ cache_list = 0
    /\ cache_list_val = 0
    /\ val_recorded = NoCost
    /\ init_calls = 0
    /\ forward_calls = 0
    /\ train_steps = 0
    /\ step = NoStep
    /\ epoch_steps = <<0, 0>>
    /\ epoch_used = {}
    /\ trained = {}
    /\ overlap = FALSE
    /\ early = FALSE
    /\ ret = <<>>

\* a configuration outside the documented ranges
InvalidConfig ==
    \/ learning_rate <= 0
    \/ batch_size > n_train
    \/ lm_dropout <= 0
    \/ lm_dropout > One

\* L_layer_model with a configuration check in front of everything else
LLayerModelEnter_checked ==
    /\ pc = "call"
    /\ IF InvalidConfig
       THEN /\ pc' = "failed"
            /\ UNCHANGED <<costs, costs_val, accuracy_train_list, accuracy_val,
                           last_cost_val, init_calls, lm_parameters, iteration,
                           epoch, batch>>
       ELSE /\ costs' = <<>>
            /\ costs_val' = <<>>
            /\ accuracy_train_list' = <<>>
            /\ accuracy_val' = <<>>
            /\ last_cost_val' = InitLastCostVal
            /\ init_calls' = init_calls + 1
            /\ lm_parameters' = 0
            /\ iteration' = 0
            /\ epoch' = 0
            /\ batch' = 0
            /\ pc' = "loop"
    /\ UNCHANGED <<learning_rate, num_iterations, batch_size, lm_dropout, n_train,
                   cache_list, cache_list_val, val_recorded, forward_calls,
                   train_steps, step, epoch_steps, epoch_used, trained, overlap,
                   early, ret>>
    /\ UNCHANGED netVars

\* lines 340-348: the lists, last_cost_val, initialize_parameters, the split
LLayerModelEnter ==
    /\ pc = "call"
    /\ costs' = <<>>
    /\ costs_val' = <<>>
    /\ accuracy_train_list' = <<>>
    /\ accuracy_val' = <<>>
    /\ last_cost_val' = InitLastCostVal
    /\ init_calls' = init_calls + 1
    /\ lm_parameters' = 0
    /\ iteration' = 0
    /\ epoch' = 0
    /\ batch' = 0
    /\ pc' = "loop"
    /\ UNCHANGED <<learning_rate, num_iterations, batch_size, lm_dropout, n_train,
                   cache_list, cache_list_val, val_recorded, forward_calls,
                   train_steps, step, epoch_steps, epoch_used, trained, overlap,
                   early, ret>>
    /\ UNCHANGED netVars

\* One pass through the body of the batch loop, lines 353-386.
BatchStep ==
    /\ pc = "loop"
    /\ epoch < num_iterations
    /\ batch < NumBatches(n_train, batch_size)
    /\ LET validation == iteration % ValInterval = 0
       IN
       \E cost_val \in (IF validation THEN CostVals ELSE {NoCost}) :
         LET starting_sample == StartingSample(batch, batch_size)
             ending_sample == EndingSample(batch, batch_size)
             Xb == PySlice(XTrain, starting_sample, ending_sample)
             Yb == PySlice(YTrain, starting_sample, ending_sample)
             fTrain == ForwardCall(forward_calls + 1, "train", lm_dropout)
             fVal == ForwardCall(forward_calls + 2, "validation", One)
             pTrain == Predict(forward_calls + 3)
             pVal == Predict(forward_calls + 4)
             stop == EarlyStop(validation, last_cost_val, cost_val, iteration)
             finalTrain == Predict(forward_calls + 5)
             finalVal == Predict(forward_calls + 6)
             fwd == IF ~validation THEN <<fTrain>>
                    ELSE IF ~stop THEN <<fTrain, fVal, pTrain, pVal>>
                    ELSE <<fTrain, fVal, pTrain, pVal, finalTrain, finalVal>>
             newCacheListVal == IF validation THEN fVal.id ELSE cache_list_val
             lastOfEpoch == batch + 1 >= NumBatches(n_train, batch_size)
         IN
         /\ cache_list' = fTrain.id
         /\ cache_list_val' = newCacheListVal
         /\ lm_parameters' = lm_parameters + 1
         /\ train_steps' = train_steps + 1
         /\ forward_calls' = forward_calls + Len(fwd)
         /\ step' = [iter |-> iteration, batch |-> batch,
                     validation |-> validation,
                     prev |-> IF validation THEN val_recorded ELSE NoCost,
                     cost |-> cost_val, X |-> Xb, Y |-> Yb, fwd |-> fwd,
                     bwd |-> BackwardCaches(fTrain.id, newCacheListVal)]
         /\ trained' = trained \cup Range(Xb)
         /\ overlap' = (overlap \/ Range(Xb) \cap epoch_used # {})
         /\ IF validation
            THEN /\ costs' = Append(costs, <<iteration, fTrain.keep>>)
                 /\ costs_val' = Append(costs_val, <<iteration, fVal.keep>>)
                 /\ accuracy_train_list' =
                        Append(accuracy_train_list, <<iteration, pTrain.keep>>)
                 /\ accuracy_val' = Append(accuracy_val, <<iteration, pVal.keep>>)
                 /\ val_recorded' = cost_val
            ELSE UNCHANGED <<costs, costs_val, accuracy_train_list, accuracy_val,
                             val_recorded>>
         /\ IF stop
            THEN /\ pc' = "returned"
                 /\ early' = TRUE
                 /\ ret' = <<lm_parameters', costs'>>
                 /\ epoch_steps' = <<epoch_steps[1] + 1, epoch_steps[2]>>
                 /\ epoch_used' = epoch_used \cup Range(Xb)
                 /\ UNCHANGED <<last_cost_val, iteration, epoch, batch>>
            ELSE /\ last_cost_val' = IF validation THEN cost_val ELSE last_cost_val
                 /\ iteration' = iteration + 1
                 /\ IF lastOfEpoch
                    THEN /\ epoch' = epoch + 1
                         /\ batch' = 0
                         /\ epoch_steps' = <<0, epoch_steps[1] + 1>>
                         /\ epoch_used' = {}
                    ELSE /\ batch' = batch + 1
                         /\ epoch_steps' = <<epoch_steps[1] + 1, epoch_steps[2]>>
                         /\ epoch_used' = epoch_used \cup Range(Xb)
                         /\ UNCHANGED epoch
                 /\ UNCHANGED <<pc, early, ret>>
    /\ UNCHANGED <<learning_rate, num_iterations, batch_size, lm_dropout, n_train,
                   init_calls>>
    /\ UNCHANGED netVars

\* lines 387-390: the loops are exhausted
LLayerModelReturn ==
    /\ pc = "loop"
    /\ epoch >= num_iterations \/ NumBatches(n_train, batch_size) = 0
    /\ pc' = "returned"
    /\ ret' = <<lm_parameters, costs>>
    /\ UNCHANGED <<learning_rate, num_iterations, batch_size, lm_dropout, n_train,
                   lm_parameters, epoch, batch, iteration, costs, costs_val,
                   accuracy_train_list, accuracy_val, last_cost_val, cache_list,
                   cache_list_val, val_recorded, init_calls, forward_calls,
                   train_steps, step, epoch_steps, epoch_used, trained, overlap,
                   early>>
    /\ UNCHANGED netVars

\* the values the variables of the other specification rest at
NetIdle ==
    /\ layer_dims = <<1, 1>>
    /\ samples = 1
    /\ net_batchnorm = FALSE
    /\ net_dropout = One
    /\ net_parameters = initialize_parameters(<<1, 1>>)
    /\ net_AL = NoArr
    /\ net_caches = <<>>
    /\ net_grads = <<>>
    /\ net_pc = "idle"
    /\ net_steps = 0
    /\ rand_calls = 0

LoopIdle ==
    /\ learning_rate = 9
    /\ num_iterations = 0
    /\ batch_size = 1
    /\ lm_dropout = One
    /\ n_train = 0
    /\ pc = "idle"
    /\ lm_parameters = 0
    /\ epoch = 0
    /\ batch = 0
    /\ iteration = 0
    /\ costs = <<>>
    /\ costs_val = <<>>
    /\ accuracy_train_list = <<>>
    /\ accuracy_val = <<>>
    /\ last_cost_val = NoCost
    /\ cache_list = 0
    /\ cache_list_val = 0
    /\ val_recorded = NoCost
    /\ init_calls = 0
    /\ forward_calls = 0
    /\ train_steps = 0
    /\ step = NoStep
    /\ epoch_steps = <<0, 0>>
    /\ epoch_used = {}
    /\ trained = {}
    /\ overlap = FALSE
    /\ early = FALSE
    /\ ret = <<>>

InitLoop == InitLoopVars /\ NetIdle

NextLoop == LLayerModelEnter \/ BatchStep \/ LLayerModelReturn

SpecLoop == InitLoop /\ [][NextLoop]_vars

InitNet == InitNetVars /\ LoopIdle

NextNet == NetForward \/ NetBackward \/ NetUpdate

SpecNet == InitNet /\ [][NextNet]_vars

\* =================================================================== claims
\* ---- helpers of the claims about the network passes
\* g is  (raw * mask) / p
MaskedBy(g, mask, p) ==
    /\ g.val[1] = "div"
    /\ g.val[3] = p
    /\ g.val[2][1] = "mul"
    /\ g.val[2][3] = mask.val

\* g is the bare product W.T . dZ returned by Linear_backward
Unmasked(g) == g.val[1] = "dot"

ParamShapesOK ==
    \A l \in 1..NumLayers :
        /\ net_parameters[l][1].shape = <<layer_dims[l + 1], layer_dims[l]>>
        /\ net_parameters[l][2].shape = <<layer_dims[l + 1], 1>>

GradShapesOK ==
    net_pc = "update" =>
        \A l \in 1..NumLayers :
            /\ net_grads[<<"dW", l>>].shape = <<layer_dims[l + 1], layer_dims[l]>>
            /\ net_grads[<<"db", l>>].shape = <<layer_dims[l + 1], 1>>

\* The same network without any dropout step: forward.
RefLayerForward(A_prev, W, B, activation) ==
    LET lin == linear_forward(A_prev, W, B)
        act == IF activation = "relu" THEN relu(lin[1]) ELSE softmax(lin[1])
    IN  <<act[1], <<lin[2], act[2]>>>>

RECURSIVE RefHidden(_, _, _, _)
RefHidden(X, parameters, use_batchnorm, upto) ==
    IF upto = 0 THEN <<X, <<>>>>
    ELSE
        LET prev == RefHidden(X, parameters, use_batchnorm, upto - 1)
            res == RefLayerForward(prev[1], parameters[upto][1],
                                   parameters[upto][2], "relu")
            A == IF use_batchnorm THEN apply_batchnorm(res[1]) ELSE res[1]
        IN  <<A, Append(prev[2], res[2])>>

RefForward(X, parameters, use_batchnorm) ==
    LET n == Len(parameters)
        hid == RefHidden(X, parameters, use_batchnorm, n - 1)
        res == RefLayerForward(hid[1], parameters[n][1], parameters[n][2], "softmax")
    IN  <<res[1], Append(hid[2], res[2])>>

\* The same network without any dropout step: backward, from layer l down,
\* dA being the gradient of the activation of layer l.
RECURSIVE RefBackwardFrom(_, _, _, _)
RefBackwardFrom(grads, dA, caches, l) ==
    IF l = 0 THEN grads
    ELSE
        LET lb == Linear_backward(relu_backward(dA, caches[l][2]), caches[l][1])
            g == (<<"dA", l - 1>> :> lb[1]) @@ (<<"dW", l>> :> lb[2])
                 @@ (<<"db", l>> :> lb[3]) @@ grads
        IN  RefBackwardFrom(g, lb[1], caches, l - 1)

RefBackward(AL, Y, caches) ==
    LET n == Len(caches)
        lb == Linear_backward(softmax_backward(AL, Y), caches[n][1])
        g == (<<"dA", n - 1>> :> lb[1]) @@ (<<"dW", n>> :> lb[2])
             @@ (<<"db", n>> :> lb[3])
    IN  RefBackwardFrom(g, lb[1], caches, n - 1)

\* C1 (as stated): with keep-probability < 1 and L >= 2, every dA_l written to
\* grads for a hidden layer l in 1..L-1 is multiplied by the mask of layer l's
\* own cache (caches[l-1][2]) and divided by the keep-probability, and dA_0 is
\* not masked.
CexC1 ==
    (net_pc = "update" /\ net_dropout < One /\ NumLayers >= 2) =>
        /\ \A l \in 1..(NumLayers - 1) :
              MaskedBy(net_grads[<<"dA", l>>], net_caches[l][3], net_dropout)
        /\ Unmasked(net_grads[<<"dA", 0>>])

\* C5: the weights and biases have the shapes [layer_dims[l], layer_dims[l-1]]
\* and [layer_dims[l], 1] after initialize_parameters and after every training
\* step, and every dW / db the backward pass returns has its parameter's shape.
ThmC5 == ParamShapesOK /\ GradShapesOK

WitC5 ==
    /\ net_steps >= 1
    /\ net_pc = "update"
    /\ net_dropout < One
    /\ net_batchnorm
    /\ NumLayers >= 3
    /\ samples >= 2

\* C7: with keep-probability exactly 1 no mask is generated or stored, and the
\* activations, caches and gradients are those of the same network run without
\* the dropout step.
ThmC7 ==
    net_dropout = One =>
        /\ rand_calls = 0
        /\ net_pc # "raised"
        /\ net_pc \in {"backward", "update"} =>
              LET ref == RefForward(NetX, net_parameters, net_batchnorm)
              IN  /\ net_AL = ref[1]
                  /\ net_caches = ref[2]
                  /\ \A i \in 1..Len(net_caches) : Len(net_caches[i]) = 2
        /\ net_pc = "update" => net_grads = RefBackward(net_AL, NetY, net_caches)

WitC7 ==
    /\ net_dropout = One
    /\ net_pc = "update"
    /\ NumLayers >= 3
    /\ net_steps >= 1

\* ---- helpers of the claims about the training loop
\* number of batch steps of a run that never stops early
TotalSteps == num_iterations * (n_train \div batch_size)

\* length of the cost list such a run returns: one entry per started hundred
FullRunCosts == (TotalSteps + 99) \div 100

\* (previously recorded validation cost) - (current one) < 1e-10
DropBelow(prev, cur) ==
    \/ prev[1] < cur[1]
    \/ prev[1] = cur[1] /\ prev[2] - cur[2] < 10

StrictlyIncreasing(list) ==
    \A i \in 1..(Len(list) - 1) : list[i][1] < list[i + 1][1]

\* the loop stops at a step exactly when the step is a validation point past
\* the floor whose validation cost dropped by less than the threshold
C3StopIff ==
    train_steps > 0 =>
        (early <=> /\ step.validation
                   /\ step.iter % 100 = 0
                   /\ step.iter > 18000
                   /\ DropBelow(step.prev, step.cost))

\* on stopping nothing further runs and the current parameters and the
\* recorded training costs are returned
C3Return ==
    early =>
        /\ pc = "returned"
        /\ train_steps = step.iter + 1
        /\ lm_parameters = train_steps
        /\ ret = <<lm_parameters, costs>>
        /\ Len(costs) = step.iter \div 100 + 1
        /\ costs[Len(costs)][1] = step.iter

\* without a stop the whole budget runs
C3FullRun ==
    (pc = "returned" /\ ~early) =>
        /\ train_steps = TotalSteps
        /\ ret = <<lm_parameters, costs>>
        /\ Len(costs) = FullRunCosts

\* C2 (as stated): for an invalid configuration L_layer_model fails before
\* initialize_parameters is called and before any batch step, and never
\* returns.
CexC2 ==
    InvalidConfig => (init_calls = 0 /\ train_steps = 0 /\ pc # "returned")

\* C2 (amended): there is no configuration check: every call reaches
\* initialize_parameters first and then the loop; an invalid configuration
\* runs the same schedule as a valid one and returns parameters and costs,
\* none at all when the batch size exceeds the training set.
ThmC2 ==
    /\ pc \in {"call", "loop", "returned"}
    /\ pc # "call" => init_calls = 1
    /\ (InvalidConfig /\ pc = "returned") =>
          /\ ret = <<lm_parameters, costs>>
          /\ ~early => train_steps = TotalSteps
    /\ (batch_size > n_train /\ pc = "returned") =>
          (train_steps = 0 /\ ret = <<0, <<>>>>)

WitC2 ==
    /\ learning_rate <= 0
    /\ lm_dropout > One
    /\ pc = "returned"
    /\ train_steps > 0

\* C3 (as stated): stop iff validation point, past the floor, drop below the
\* threshold; on stopping return the current parameters and a cost history
\* shorter than the one of a full run; otherwise run the whole budget.
CexC3 ==
    /\ C3StopIff
    /\ C3Return
    /\ early => Len(costs) < FullRunCosts
    /\ C3FullRun

\* C3 (amended): as stated, except that the returned cost history is never
\* longer than the one of a full run, and shorter exactly when a further
\* validation point lay within the budget.
ThmC3 ==
    /\ C3StopIff
    /\ C3Return
    /\ early => /\ Len(costs) <= FullRunCosts
                /\ Len(costs) < FullRunCosts <=> step.iter + 100 < TotalSteps
    /\ C3FullRun

WitC3 ==
    /\ early
    /\ step.iter > 18000
    /\ step.prev[2] - step.cost[2] = 5
    /\ Len(costs) < FullRunCosts

\* C4 (as stated): num_iterations = N gives N training iterations in total
\* and, without early stopping, N/100 recorded costs with increasing
\* iteration indices.
CexC4 ==
    (pc = "returned" /\ ~early) =>
        /\ train_steps = num_iterations
        /\ Len(costs) = num_iterations \div 100
        /\ StrictlyIncreasing(costs)

\* C8 (as stated): every recorded metric comes from a forward pass run with
\* keep-probability 1.
CexC8 ==
    \A list \in {costs, costs_val, accuracy_train_list, accuracy_val} :
        \A i \in 1..Len(list) : list[i][2] = One

CexC10 ==
    train_steps > 0 =>
        \A i \in 1..Len(step.fwd) :
            Cardinality({j \in 1..Len(step.bwd) : step.bwd[j] = step.fwd[i].id}) = 1

\* C10 (amended): the cache list of the training forward pass is consumed by
\* exactly one L_model_backward call, that of the same iteration; the cache
\* lists of the validation forward pass and of Predict are consumed by none;
\* no backward call uses a cache list of an earlier iteration.
ThmC10 ==
    train_steps > 0 =>
        /\ step.fwd[1].kind = "train"
        /\ step.fwd[1].id = forward_calls - Len(step.fwd) + 1
        /\ \A i \in 1..Len(step.fwd) : step.fwd[i].id = step.fwd[1].id + i - 1
        /\ step.bwd = <<step.fwd[1].id>>
        /\ \A i \in 2..Len(step.fwd) :
              /\ step.fwd[i].kind # "train"
              /\ \A j \in 1..Len(step.bwd) : step.bwd[j] # step.fwd[i].id

WitC10 ==
    /\ train_steps > 1
    /\ step.validation
    /\ Len(step.fwd) = 4
    /\ cache_list_val > 0

====
